---- MODULE Spec2Model ----
(***************************************************************************)
(* The live audio session engine of "One": the React hook useLiveSession   *)
(* (src/services/liveSessionHook.ts), the effect of VoiceInterface that    *)
(* drives it (src/components/VoiceInterface.tsx) and the task operations   *)
(* of App (src/App.tsx).                                                   *)
(*                                                                         *)
(* A Session is one connect() call that got past the credential test.      *)
(* Sessions are numbered 1, 2, ... in the order of their connect() calls;  *)
(* 0 stands for null in every ref.  The two AudioContexts, the microphone  *)
(* stream and the capture nodes a Session creates carry its number.        *)
(* The remote service, the browser's devices and the user are the          *)
(* environment: their events are the actions of the model.                 *)
(***************************************************************************)
EXTENDS Integers, Sequences, FiniteSets, TLC

\* ------------------------------------------------------------------ bounds
MaxSessions == 2
MsgSessions == 1
MaxMsgs == 2
MaxTime == 2
MaxFrames == 3
FrameLen == 2

Sessions == 1..MaxSessions
Null == 0

NoError == "null"
ApiKeyMissing == "API Key missing"
MicDeniedMsg == "Microphone access denied."
TransportMsgs == {"socket failure", "quota exceeded"}
\* What the socket hands to onerror: an Error, or the ErrorEvent that the
\* onerror of the SDK's LiveCallbacks is declared with.  Both carry a message.
ErrorValue(k, m) == [kind |-> k, message |-> m]
TransportErrors == {ErrorValue(k, m) : k \in {"Error", "ErrorEvent"}, m \in TransportMsgs}
SocketFailure == ErrorValue("ErrorEvent", "socket failure")
\* liveSessionHook.ts 253: err instanceof Error ? err.message : String(err)
ErrorMessage(err) == IF err.kind = "Error" THEN err.message ELSE "[object ErrorEvent]"

VARIABLES
    \* App / VoiceInterface
    uiPc,                   \* "unmounted" | "idle" | "pending" | "body"
    isOpen,                 \* App.isVoiceOpen, the isOpen prop
    tasks,                  \* App.tasks
    \* useLiveSession: React state
    isConnected, isTalking, isUserTalking, userAudioLevel, error,
    \* useLiveSession: refs
    audioContextRef, inputContextRef, nextStartTimeRef, currentSessionPromise,
    streamRef, processorRef, sourceRef,
    \* environment
    apiKey,                 \* process.env.API_KEY is set
    nSessions,              \* Sessions started so far
    transport,              \* per Session: "none" | "connecting" | "open" | "closing" | "failed" | "closed"
    closeReq,               \* Sessions with a pending .then(session => session.close())
    failure,                \* per Session: the message carried by the error its socket
                            \* raised, while the socket is in that state; else "none"
    snapshot,               \* per Session: existingTasks as closed over by its connect
    outCtx, inCtx,          \* per Session's AudioContext: "none" | "running" | "closed"
    ctxBorn,                \* per Session: device time when its AudioContexts were created
    mic,                    \* per Session's getUserMedia: "none" | "pending" | "granted" | "denied"
    streamLive,             \* per Session's MediaStream: its tracks are not stopped
    procOn, srcOn,          \* per Session's ScriptProcessor / source node: connected
    procCtx,                \* the input context the Session's capture nodes were created on
    realtimeIn,             \* per Session: what became of its last sendRealtimeInput:
                            \* "none" | "delivered" | "dropped"
    inbox,                  \* per Session: the tool-call batches it delivered
    outbox,                 \* per Session: the tool-response messages sent on it
    nMsgs,                  \* inbound messages so far
    decoding,               \* onmessage handlers suspended at await pcmToAudioBuffer
    scheduled,              \* the buffer sources started: [ctx, start, dur, ended], with
                            \* the context's time then (at) and their message's number (n)
    clock,                  \* device time
    uncaught,               \* handlers that ended in an uncaught exception or rejection
    pendingAtDrop           \* history: the Sessions whose handshake was already under
                            \* way, and still is, when onclose or onerror last turned
                            \* isConnected from true to false, with no connect() since

appVars == <<uiPc, isOpen, tasks>>
flagVars == <<isConnected, isTalking, isUserTalking, userAudioLevel, error>>
refVars == <<audioContextRef, inputContextRef, nextStartTimeRef, currentSessionPromise,
             streamRef, processorRef, sourceRef>>
netVars == <<nSessions, transport, closeReq, snapshot, failure>>
ctxVars == <<outCtx, inCtx, ctxBorn>>
capVars == <<mic, streamLive, procOn, srcOn, procCtx, realtimeIn>>
toolVars == <<inbox, outbox>>
playVars == <<decoding, scheduled>>
envVars == <<apiKey, nMsgs, clock, uncaught, pendingAtDrop>>
vars == <<appVars, flagVars, refVars, netVars, ctxVars, capVars, toolVars, playVars, envVars>>

\* ------------------------------------------------------------- disconnect
\* AudioContext.close(): closing a context twice rejects.
CloseCtx(ctx, ref) == IF ref = Null THEN ctx ELSE [ctx EXCEPT ![ref] = "closed"]
CloseRaises(ctx, ref) == ref # Null /\ ctx[ref] = "closed"

\* disconnect() without the "= null" of lines 50 and 54: the refs keep the closed contexts.
DisconnectKeepsContexts ==
    /\ closeReq' = IF currentSessionPromise # Null
                   THEN closeReq \cup {currentSessionPromise} ELSE closeReq
    /\ currentSessionPromise' = Null
    /\ procOn' = IF processorRef # Null THEN [procOn EXCEPT ![processorRef] = FALSE] ELSE procOn
    /\ processorRef' = Null
    /\ srcOn' = IF sourceRef # Null THEN [srcOn EXCEPT ![sourceRef] = FALSE] ELSE srcOn
    /\ sourceRef' = Null
    /\ streamLive' = IF streamRef # Null THEN [streamLive EXCEPT ![streamRef] = FALSE] ELSE streamLive
    /\ streamRef' = Null
    /\ inCtx' = CloseCtx(inCtx, inputContextRef)
    /\ outCtx' = CloseCtx(outCtx, audioContextRef)
    /\ uncaught' = IF CloseRaises(inCtx, inputContextRef) \/ CloseRaises(outCtx, audioContextRef)
                   THEN uncaught \cup {"disconnect"} ELSE uncaught
    /\ isConnected' = FALSE
    /\ isTalking' = FALSE
    /\ isUserTalking' = FALSE
    /\ userAudioLevel' = 0
    /\ UNCHANGED <<inputContextRef, audioContextRef>>
    /\ UNCHANGED <<error, nextStartTimeRef, nSessions, transport, snapshot, failure, ctxBorn>>
    /\ UNCHANGED <<mic, procCtx, realtimeIn, apiKey, nMsgs, clock, pendingAtDrop>>
    /\ UNCHANGED <<toolVars, playVars>>

\* disconnect(), liveSessionHook.ts 29-61.
DisconnectCall ==
    /\ closeReq' = IF currentSessionPromise # Null
                   THEN closeReq \cup {currentSessionPromise} ELSE closeReq
    /\ currentSessionPromise' = Null
    /\ procOn' = IF processorRef # Null THEN [procOn EXCEPT ![processorRef] = FALSE] ELSE procOn
    /\ processorRef' = Null
    /\ srcOn' = IF sourceRef # Null THEN [srcOn EXCEPT ![sourceRef] = FALSE] ELSE srcOn
    /\ sourceRef' = Null
    /\ streamLive' = IF streamRef # Null THEN [streamLive EXCEPT ![streamRef] = FALSE] ELSE streamLive
    /\ streamRef' = Null
    /\ inCtx' = CloseCtx(inCtx, inputContextRef)
    /\ inputContextRef' = Null
    /\ outCtx' = CloseCtx(outCtx, audioContextRef)
    /\ audioContextRef' = Null
    /\ uncaught' = IF CloseRaises(inCtx, inputContextRef) \/ CloseRaises(outCtx, audioContextRef)
                   THEN uncaught \cup {"disconnect"} ELSE uncaught
    /\ isConnected' = FALSE
    /\ isTalking' = FALSE
    /\ isUserTalking' = FALSE
    /\ userAudioLevel' = 0
    /\ UNCHANGED <<error, nextStartTimeRef, nSessions, transport, snapshot, failure, ctxBorn>>
    /\ UNCHANGED <<mic, procCtx, realtimeIn, apiKey, nMsgs, clock, pendingAtDrop>>
    /\ UNCHANGED <<toolVars, playVars>>

\* ---------------------------------------------------------------- connect
\* connect() without the return of line 67: the error is set and the Session
\* started all the same.
ConnectWithoutReturn ==
    LET s == nSessions + 1 IN
    /\ error' = IF apiKey THEN error ELSE ApiKeyMissing
    /\ nSessions' = s
    /\ outCtx' = [outCtx EXCEPT ![s] = "running"]
    /\ inCtx' = [inCtx EXCEPT ![s] = "running"]
    /\ ctxBorn' = [ctxBorn EXCEPT ![s] = clock]
    /\ audioContextRef' = s
    /\ inputContextRef' = s
    /\ nextStartTimeRef' = 0
    /\ transport' = [transport EXCEPT ![s] = "connecting"]
    /\ snapshot' = [snapshot EXCEPT ![s] = tasks]
    /\ currentSessionPromise' = s
    /\ pendingAtDrop' = {}
    /\ UNCHANGED <<streamRef, processorRef, sourceRef, closeReq, failure>>
    /\ UNCHANGED <<isConnected, isTalking, isUserTalking, userAudioLevel>>
    /\ UNCHANGED <<capVars, toolVars, playVars, apiKey, nMsgs, clock, uncaught>>

\* connect(), liveSessionHook.ts 63-75, 115, 260: no await, so one step.  A new
\* AudioContext's currentTime is 0.
ConnectCall ==
    IF ~apiKey
    THEN /\ error' = ApiKeyMissing
         /\ UNCHANGED <<isConnected, isTalking, isUserTalking, userAudioLevel>>
         /\ UNCHANGED <<refVars, netVars, ctxVars, capVars, toolVars, playVars, envVars>>
    ELSE LET s == nSessions + 1 IN
         /\ nSessions' = s
         /\ outCtx' = [outCtx EXCEPT ![s] = "running"]
         /\ inCtx' = [inCtx EXCEPT ![s] = "running"]
         /\ ctxBorn' = [ctxBorn EXCEPT ![s] = clock]
         /\ audioContextRef' = s
         /\ inputContextRef' = s
         /\ nextStartTimeRef' = 0
         /\ transport' = [transport EXCEPT ![s] = "connecting"]
         /\ snapshot' = [snapshot EXCEPT ![s] = tasks]
         /\ currentSessionPromise' = s
         /\ pendingAtDrop' = {}
         /\ UNCHANGED <<streamRef, processorRef, sourceRef, closeReq, failure>>
         /\ UNCHANGED <<flagVars, capVars, toolVars, playVars, apiKey, nMsgs, clock, uncaught>>

\* ------------------------------------------------- VoiceInterface's effect
\* useEffect(..., [isOpen, connect, disconnect]), VoiceInterface.tsx 38-45.
\* connect changes identity on every render of App (addTask and completeTask
\* are new closures, tasks a new array), so every render of App runs the
\* cleanup and then the body.
Mount ==
    /\ uiPc = "unmounted"
    /\ DisconnectCall
    /\ uiPc' = "idle"
    /\ UNCHANGED <<isOpen, tasks>>

\* every variable of the hook and of its environment: all but App's own
hookVars == <<flagVars, refVars, netVars, ctxVars, capVars, toolVars, playVars, envVars>>

\* "Talk to One", App.tsx 144
ClickTalk ==
    /\ uiPc = "idle" /\ ~isOpen
    /\ isOpen' = TRUE
    /\ uiPc' = "pending"
    /\ UNCHANGED <<tasks, hookVars>>

\* the pill's close button, VoiceInterface.tsx 82, App.tsx 157
ClickClose ==
    /\ uiPc = "idle" /\ isOpen
    /\ isOpen' = FALSE
    /\ uiPc' = "pending"
    /\ UNCHANGED <<tasks, hookVars>>

\* any other render of App (setView, setJournalEntries), App.tsx 71, 117, 123
AppRender ==
    /\ uiPc = "idle"
    /\ uiPc' = "pending"
    /\ UNCHANGED <<isOpen, tasks, hookVars>>

\* return () => disconnect(), VoiceInterface.tsx 44.  cap bounds the Sessions of
\* a run: the render that would start one more stays pending.
EffectCleanup(cap) ==
    /\ uiPc = "pending"
    /\ isOpen /\ apiKey => nSessions < cap
    /\ DisconnectCall
    /\ uiPc' = "body"
    /\ UNCHANGED <<isOpen, tasks>>

\* if (isOpen) connect() else disconnect(), VoiceInterface.tsx 39-43
EffectBody ==
    /\ uiPc = "body"
    /\ IF isOpen THEN ConnectCall ELSE DisconnectCall
    /\ uiPc' = "idle"
    /\ UNCHANGED <<isOpen, tasks>>

\* -------------------------------------------------------------- transport
\* Callbacks run between the effect's renders, never inside one.
Quiet == uiPc \in {"idle", "pending"}

\* onopen without the setError(null) of line 140
OnOpenKeepsError(s) ==
    /\ Quiet
    /\ transport[s] = "connecting"
    /\ transport' = [transport EXCEPT ![s] = "open"]
    /\ isConnected' = TRUE
    /\ mic' = [mic EXCEPT ![s] = "pending"]
    /\ pendingAtDrop' = pendingAtDrop \ {s}
    /\ UNCHANGED <<isTalking, isUserTalking, userAudioLevel, error>>
    /\ UNCHANGED <<nSessions, closeReq, snapshot, failure>>
    /\ UNCHANGED <<streamLive, procOn, srcOn, procCtx, realtimeIn>>
    /\ UNCHANGED <<apiKey, nMsgs, clock, uncaught>>
    /\ UNCHANGED <<appVars, refVars, ctxVars, toolVars, playVars>>

\* callbacks.onopen, liveSessionHook.ts 137-144: up to the await.
OnOpen(s) ==
    /\ Quiet
    /\ transport[s] = "connecting"
    /\ transport' = [transport EXCEPT ![s] = "open"]
    /\ isConnected' = TRUE
    /\ error' = NoError
    /\ mic' = [mic EXCEPT ![s] = "pending"]
    /\ pendingAtDrop' = pendingAtDrop \ {s}
    /\ UNCHANGED <<isTalking, isUserTalking, userAudioLevel>>
    /\ UNCHANGED <<nSessions, closeReq, snapshot, failure>>
    /\ UNCHANGED <<streamLive, procOn, srcOn, procCtx, realtimeIn>>
    /\ UNCHANGED <<apiKey, nMsgs, clock, uncaught>>
    /\ UNCHANGED <<appVars, refVars, ctxVars, toolVars, playVars>>

\* currentSessionPromise.current.then(session => session.close()),
\* liveSessionHook.ts 31: runs once the Session's promise has resolved.
RunClose(s) ==
    /\ Quiet
    /\ s \in closeReq
    /\ transport[s] \in {"open", "closing", "closed"}
    /\ closeReq' = closeReq \ {s}
    /\ transport' = IF transport[s] = "open" THEN [transport EXCEPT ![s] = "closing"] ELSE transport
    /\ UNCHANGED <<nSessions, snapshot, failure>>
    /\ UNCHANGED <<appVars, flagVars, refVars, ctxVars, capVars, toolVars, playVars, envVars>>

\* callbacks.onclose, liveSessionHook.ts 246-249: after session.close(), after a
\* failure, or when the remote endpoint closes.
OnClose(s) ==
    /\ Quiet
    /\ transport[s] \in {"open", "closing", "failed"}
    /\ transport' = [transport EXCEPT ![s] = "closed"]
    /\ failure' = [failure EXCEPT ![s] = "none"]
    /\ isConnected' = FALSE
    /\ pendingAtDrop' = IF isConnected
                        THEN {r \in Sessions \ {s} : transport[r] = "connecting"}
                        ELSE pendingAtDrop \ {s}
    /\ UNCHANGED <<isTalking, isUserTalking, userAudioLevel, error>>
    /\ UNCHANGED <<nSessions, closeReq, snapshot>>
    /\ UNCHANGED <<apiKey, nMsgs, clock, uncaught>>
    /\ UNCHANGED <<appVars, refVars, ctxVars, capVars, toolVars, playVars>>

\* callbacks.onerror, liveSessionHook.ts 250-256.
OnError(s, err) ==
    /\ Quiet
    /\ transport[s] \in {"connecting", "open", "closing"}
    /\ transport' = [transport EXCEPT ![s] = "failed"]
    /\ failure' = [failure EXCEPT ![s] = err.message]
    /\ error' = ErrorMessage(err)
    /\ isConnected' = FALSE
    /\ pendingAtDrop' = IF isConnected
                        THEN {r \in Sessions \ {s} : transport[r] = "connecting"}
                        ELSE pendingAtDrop \ {s}
    /\ UNCHANGED <<isTalking, isUserTalking, userAudioLevel>>
    /\ UNCHANGED <<nSessions, closeReq, snapshot>>
    /\ UNCHANGED <<apiKey, nMsgs, clock, uncaught>>
    /\ UNCHANGED <<appVars, refVars, ctxVars, capVars, toolVars, playVars>>

\* ------------------------------------------------------------- microphone
\* the continuation of onopen after getUserMedia resolves, liveSessionHook.ts 145-176.
MicGranted(s) ==
    /\ Quiet
    /\ mic[s] = "pending"
    /\ mic' = [mic EXCEPT ![s] = "granted"]
    /\ streamRef' = s
    /\ streamLive' = [streamLive EXCEPT ![s] = TRUE]
    /\ IF inputContextRef = Null
       THEN UNCHANGED <<sourceRef, processorRef, srcOn, procOn, procCtx>>
       ELSE /\ sourceRef' = s
            /\ processorRef' = s
            /\ srcOn' = [srcOn EXCEPT ![s] = TRUE]
            /\ procOn' = [procOn EXCEPT ![s] = TRUE]
            /\ procCtx' = [procCtx EXCEPT ![s] = inputContextRef]
    /\ UNCHANGED <<audioContextRef, inputContextRef, nextStartTimeRef, currentSessionPromise>>
    /\ UNCHANGED realtimeIn
    /\ UNCHANGED <<appVars, flagVars, netVars, ctxVars, toolVars, playVars, envVars>>

\* the catch of lines 178-181 made to give the Session up as well
MicDeniedFatal(s) ==
    /\ Quiet
    /\ mic[s] = "pending"
    /\ mic' = [mic EXCEPT ![s] = "denied"]
    /\ error' = MicDeniedMsg
    /\ isConnected' = FALSE
    /\ UNCHANGED <<isTalking, isUserTalking, userAudioLevel>>
    /\ UNCHANGED <<streamLive, procOn, srcOn, procCtx, realtimeIn>>
    /\ UNCHANGED <<appVars, refVars, netVars, ctxVars, toolVars, playVars, envVars>>

\* getUserMedia rejects: the catch of liveSessionHook.ts 178-181.
MicDenied(s) ==
    /\ Quiet
    /\ mic[s] = "pending"
    /\ mic' = [mic EXCEPT ![s] = "denied"]
    /\ error' = MicDeniedMsg
    /\ UNCHANGED <<isConnected, isTalking, isUserTalking, userAudioLevel>>
    /\ UNCHANGED <<streamLive, procOn, srcOn, procCtx, realtimeIn>>
    /\ UNCHANGED <<appVars, refVars, netVars, ctxVars, toolVars, playVars, envVars>>

\* ---------------------------------------------------------------- capture
\* Samples are thousandths of full scale; a level is thousandths of 1.
Scale == 1000
Amplitudes == {0, 5, 6, Scale}
\* Captured frames: every sample has the same magnitude, so the mean square is
\* a perfect square and the root below is exact.
Frames == {[i \in 1..FrameLen |-> IF i % 2 = 1 THEN a ELSE 0 - a] : a \in Amplitudes}

RECURSIVE SumSq(_)
SumSq(f) == IF f = << >> THEN 0 ELSE Head(f) * Head(f) + SumSq(Tail(f))
Sqrt(n) == CHOOSE r \in 0..Scale : r * r = n
Min(a, b) == IF a < b THEN a ELSE b
Max(a, b) == IF a > b THEN a ELSE b

\* the level without the Math.min(1, ...) of line 166
LevelUnclamped(f) == Sqrt(SumSq(f) \div Len(f)) * 10

\* liveSessionHook.ts 161-166
Level(f) == Min(Scale, Sqrt(SumSq(f) \div Len(f)) * 10)
FrameLevel == [f \in Frames |-> Level(f)]
\* the threshold of line 168 made inclusive
TalkingAtLeast(level) == level * 20 >= Scale

\* liveSessionHook.ts 168: level > 0.05
Talking(level) == level * 20 > Scale

\* processor.onaudioprocess, liveSessionHook.ts 156-173, for the capture nodes
\* Session p created: they fire while connected in a running context.  The frame
\* goes to p's own Session; a socket that is not open drops it.
AudioProcess(p, f) ==
    /\ Quiet
    /\ procOn[p] /\ srcOn[p]
    /\ inCtx[procCtx[p]] = "running"
    /\ userAudioLevel' = FrameLevel[f]
    /\ isUserTalking' = Talking(FrameLevel[f])
    /\ realtimeIn' = [realtimeIn EXCEPT ![p] = IF transport[p] = "open" THEN "delivered" ELSE "dropped"]
    /\ UNCHANGED <<isConnected, isTalking, error>>
    /\ UNCHANGED <<mic, streamLive, procOn, srcOn, procCtx>>
    /\ UNCHANGED <<appVars, refVars, netVars, ctxVars, toolVars, playVars, envVars>>

\* ------------------------------------------------------------------ tasks
\* A string is a sequence of characters.
Lower(c) == CASE c = "A" -> "a" [] c = "B" -> "b" [] c = "N" -> "n" [] c = "I" -> "i"
              [] OTHER -> c
ToLowerCase(str) == [i \in 1..Len(str) |-> Lower(str[i])]
Includes(hay, needle) ==
    \E i \in 0..(Len(hay) - Len(needle)) : SubSeq(hay, i + 1, i + Len(needle)) = needle
NewItem == <<"N", "e", "w", " ", "I", "t", "e", "m">>
Digits == <<"0", "1", "2", "3", "4", "5", "6", "7", "8", "9">>
\* Date.now().toString(): the clock's reading
DateNow == <<Digits[clock + 1]>>

\* addTask made to skip a title the board already has
AddTaskDedup(ts, partial) ==
    IF \E i \in 1..Len(ts) : ts[i].title = partial.title
    THEN ts
    ELSE Append(ts, [id |-> DateNow,
                     title |-> IF partial.title = << >> THEN NewItem ELSE partial.title,
                     status |-> "pending",
                     time |-> partial.time])

\* addTask, App.tsx 79-91 (the fields the engine reads back: id, title, status, time)
AddTaskOp(ts, partial) ==
    Append(ts, [id |-> DateNow,
                title |-> IF partial.title = << >> THEN NewItem ELSE partial.title,
                status |-> "pending",
                time |-> partial.time])

\* the match of line 95 without the two toLowerCase()
MatchesCaseSensitive(t, titleOrId) ==
    t.id = titleOrId \/ Includes(t.title, titleOrId)

\* completeTask, App.tsx 93-100
Matches(t, titleOrId) ==
    t.id = titleOrId \/ Includes(ToLowerCase(t.title), ToLowerCase(titleOrId))
CompleteTaskOp(ts, titleOrId) ==
    [i \in 1..Len(ts) |-> IF Matches(ts[i], titleOrId)
                          THEN [ts[i] EXCEPT !.status = "completed"] ELSE ts[i]]

\* ------------------------------------------------------------- tool calls
\* liveSessionHook.ts 199
Projection(ts) == [i \in 1..Len(ts) |-> [title |-> ts[i].title, status |-> ts[i].status,
                                         time |-> ts[i].time]]
NoTasks == << >>

\* the loop made to answer an undeclared tool with an error
ResultRejectsUnknown(call, snap) ==
    CASE call.name = "addTask" ->
            [status |-> "success", message |-> "Task added to board.", tasks |-> NoTasks]
      [] call.name = "markTaskComplete" ->
            [status |-> "success", message |-> "Task marked complete.", tasks |-> NoTasks]
      [] call.name = "getExistingTasks" ->
            [status |-> "none", message |-> "none", tasks |-> Projection(snap)]
      [] OTHER ->
            [status |-> "error", message |-> "unknown tool", tasks |-> NoTasks]

\* one turn of the loop of liveSessionHook.ts 187-207: the result of a call
Result(call, snap) ==
    CASE call.name = "addTask" ->
            [status |-> "success", message |-> "Task added to board.", tasks |-> NoTasks]
      [] call.name = "markTaskComplete" ->
            [status |-> "success", message |-> "Task marked complete.", tasks |-> NoTasks]
      [] call.name = "getExistingTasks" ->
            [status |-> "none", message |-> "none", tasks |-> Projection(snap)]
      [] OTHER ->
            [status |-> "ok", message |-> "none", tasks |-> NoTasks]

\* ... and its effect on App's tasks
Effect(call, ts) ==
    CASE call.name = "addTask" -> AddTaskOp(ts, call.args)
      [] call.name = "markTaskComplete" -> CompleteTaskOp(ts, call.args.title)
      [] OTHER -> ts

Mutates(call) == call.name \in {"addTask", "markTaskComplete"}

\* the loop made to push a response for the three declared tools only
ResponsesSkipUnknown(calls, snap) ==
    SelectSeq([k \in 1..Len(calls) |-> [id |-> calls[k].id, name |-> calls[k].name,
                                        response |-> Result(calls[k], snap)]],
              LAMBDA r : r.name \in {"addTask", "markTaskComplete", "getExistingTasks"})

\* the loop of liveSessionHook.ts 186-207: the responses, in the order pushed
Responses(calls, snap) ==
    [k \in 1..Len(calls) |-> [id |-> calls[k].id, name |-> calls[k].name,
                              response |-> Result(calls[k], snap)]]
RECURSIVE Dispatch(_, _)
Dispatch(calls, ts) ==
    IF calls = << >> THEN ts ELSE Dispatch(Tail(calls), Effect(Head(calls), ts))

\* ---------------------------------------------------------------- messages
Call(i, n, t) == [id |-> i, name |-> n, args |-> [title |-> t, time |-> "undefined"]]
ToolBatches ==
    { <<Call("c1", "addTask", <<"A", "b">>)>>,
      <<Call("c1", "getExistingTasks", << >>), Call("c2", "markTaskComplete", <<"a">>)>>,
      <<Call("c1", "addTask", << >>), Call("c2", "setReminder", <<"a">>),
        Call("c3", "getExistingTasks", << >>)>> }
\* LiveServerMessage: toolCall (hasCalls, calls), the audio payload of the first
\* part (audio: 0 for none, else the decoded buffer's duration) and interrupted.
Msg(h, c, a, i) == [hasCalls |-> h, calls |-> c, audio |-> a, interrupted |-> i]
ToolMsgs == {Msg(TRUE, b, 0, FALSE) : b \in ToolBatches}
AudioMsgs == {Msg(FALSE, << >>, d, i) : d \in {1, 2}, i \in BOOLEAN}
            \cup {Msg(FALSE, << >>, 0, TRUE)}

\* more tool calls: a title in another case, an identifier, a title no task has,
\* an undeclared tool alone, and a read after a write in one batch
TaskBatches ==
    ToolBatches \cup
    { <<Call("c1", "markTaskComplete", <<"A", "B">>)>>,
      <<Call("c1", "markTaskComplete", <<"7">>)>>,
      <<Call("c1", "markTaskComplete", <<"z">>)>>,
      <<Call("c1", "setReminder", <<"A", "b">>)>>,
      <<Call("c1", "addTask", <<"A", "b">>), Call("c2", "getExistingTasks", << >>)>> }
TaskMsgs == {Msg(TRUE, b, 0, FALSE) : b \in TaskBatches}

CurrentTime(c) == clock - ctxBorn[c]

\* An audio payload is modelled by the duration of the buffer it decodes to; this
\* value stands for a payload of odd byte length, which decode rejects.
Malformed == 0 - 1
MalformedMsg == Msg(FALSE, << >>, Malformed, FALSE)

\* liveSessionHook.ts 241: the cursor an interruption leaves
CursorKept == nextStartTimeRef
CursorAfterInterrupt == 0

\* the response sent on whichever Session is current when the handler runs
SenderCurrent(s) == currentSessionPromise

\* liveSessionHook.ts 209: sessionPromise.then(s => s.sendToolResponse(...)), the
\* promise of the connect() call that installed the handler (line 115), not
\* currentSessionPromise.current
Sender(s) == s

\* callbacks.onmessage, liveSessionHook.ts 183-245, up to the await of 219 or,
\* with no audio payload, to its end.  The response is sent from a microtask of
\* the same turn, on the Session whose promise the handler closed over.  cap
\* bounds the messages of a run.
Receive(s, msg, cap) ==
    /\ Quiet
    /\ transport[s] = "open"
    /\ nMsgs < cap
    /\ nMsgs' = nMsgs + 1
    /\ IF msg.hasCalls
       THEN /\ tasks' = Dispatch(msg.calls, tasks)
            /\ uiPc' = IF \E k \in 1..Len(msg.calls) : Mutates(msg.calls[k])
                       THEN "pending" ELSE uiPc
            /\ inbox' = [inbox EXCEPT ![s] = Append(@, msg.calls)]
            /\ outbox' = [outbox EXCEPT ![Sender(s)] =
                                  Append(@, Responses(msg.calls, snapshot[s]))]
       ELSE UNCHANGED <<tasks, uiPc, inbox, outbox>>
    /\ IF msg.audio # 0
       THEN IF audioContextRef = Null
            THEN UNCHANGED <<isTalking, decoding, nextStartTimeRef>>
            ELSE /\ isTalking' = TRUE
                 /\ decoding' = decoding \cup {[session |-> s, dur |-> msg.audio,
                                                 interrupted |-> msg.interrupted,
                                                 n |-> nMsgs + 1]}
                 /\ UNCHANGED nextStartTimeRef
       ELSE /\ UNCHANGED decoding
            /\ IF msg.interrupted
               THEN nextStartTimeRef' = CursorAfterInterrupt /\ isTalking' = FALSE
               ELSE UNCHANGED <<nextStartTimeRef, isTalking>>
    /\ UNCHANGED <<isOpen, isConnected, isUserTalking, userAudioLevel, error>>
    /\ UNCHANGED <<audioContextRef, inputContextRef, currentSessionPromise, streamRef,
                   processorRef, sourceRef>>
    /\ UNCHANGED <<netVars, ctxVars, capVars, scheduled, apiKey, clock, uncaught, pendingAtDrop>>

OnMessage(s, msg) == Receive(s, msg, MaxMsgs)

\* the rest of the handler once pcmToAudioBuffer has resolved,
\* liveSessionHook.ts 221-244.  audioContextRef.current is read again: when null,
\* createBufferSource throws and the handler ends there.
AudioDecoded(d) ==
    /\ Quiet
    /\ d \in decoding
    /\ d.dur # Malformed
    /\ decoding' = decoding \ {d}
    /\ IF audioContextRef = Null
       THEN /\ uncaught' = uncaught \cup {"onmessage"}
            /\ UNCHANGED <<scheduled, nextStartTimeRef, isTalking>>
       ELSE LET now == CurrentTime(audioContextRef)
                start == Max(now, nextStartTimeRef)
            IN /\ scheduled' = Append(scheduled, [ctx |-> audioContextRef, start |-> start,
                                                  dur |-> d.dur, ended |-> FALSE,
                                                  at |-> now, n |-> d.n])
               /\ IF d.interrupted
                  THEN nextStartTimeRef' = CursorAfterInterrupt /\ isTalking' = FALSE
                  ELSE nextStartTimeRef' = start + d.dur /\ UNCHANGED isTalking
               /\ UNCHANGED uncaught
    /\ UNCHANGED <<isConnected, isUserTalking, userAudioLevel, error>>
    /\ UNCHANGED <<audioContextRef, inputContextRef, currentSessionPromise, streamRef,
                   processorRef, sourceRef>>
    /\ UNCHANGED <<appVars, netVars, ctxVars, capVars, toolVars, apiKey, nMsgs, clock, pendingAtDrop>>

\* decodePCM / pcmToAudioBuffer raise on a malformed payload, liveSessionHook.ts
\* 218-219: nothing in the handler catches it, so the handler ends there, after
\* the setIsTalking(true) of line 216, and none of 221-244 runs.
DecodeFailed(d) ==
    /\ Quiet
    /\ d \in decoding
    /\ d.dur = Malformed
    /\ decoding' = decoding \ {d}
    /\ uncaught' = uncaught \cup {"onmessage"}
    /\ UNCHANGED <<scheduled, nextStartTimeRef, flagVars>>
    /\ UNCHANGED <<audioContextRef, inputContextRef, currentSessionPromise, streamRef,
                   processorRef, sourceRef>>
    /\ UNCHANGED <<appVars, netVars, ctxVars, capVars, toolVars, apiKey, nMsgs, clock, pendingAtDrop>>

\* source.onended, liveSessionHook.ts 231-236
FrameEnded(k) ==
    /\ Quiet
    /\ k \in 1..Len(scheduled)
    /\ ~scheduled[k].ended
    /\ outCtx[scheduled[k].ctx] = "running"
    /\ CurrentTime(scheduled[k].ctx) >= scheduled[k].start + scheduled[k].dur
    /\ scheduled' = [scheduled EXCEPT ![k].ended = TRUE]
    /\ isTalking' = IF audioContextRef # Null /\ CurrentTime(audioContextRef) >= nextStartTimeRef
                    THEN FALSE ELSE isTalking
    /\ UNCHANGED <<isConnected, isUserTalking, userAudioLevel, error>>
    /\ UNCHANGED <<refVars, decoding>>
    /\ UNCHANGED <<appVars, netVars, ctxVars, capVars, toolVars, envVars>>

\* the device clock advances
Tick ==
    /\ Quiet
    /\ clock < MaxTime
    /\ clock' = clock + 1
    /\ UNCHANGED <<apiKey, nMsgs, uncaught, pendingAtDrop>>
    /\ UNCHANGED <<appVars, flagVars, refVars, netVars, ctxVars, capVars, toolVars, playVars>>

\* ------------------------------------------------------------------- spec
\* useLiveSession and VoiceInterface before the first effect
InitHook ==
    /\ uiPc = "unmounted"
    /\ isOpen = FALSE
    /\ isConnected = FALSE /\ isTalking = FALSE /\ isUserTalking = FALSE
    /\ userAudioLevel = 0
    /\ error = NoError
    /\ audioContextRef = Null /\ inputContextRef = Null /\ nextStartTimeRef = 0
    /\ currentSessionPromise = Null
    /\ streamRef = Null /\ processorRef = Null /\ sourceRef = Null
    /\ apiKey \in BOOLEAN
    /\ nSessions = 0
    /\ transport = [s \in Sessions |-> "none"]
    /\ closeReq = {}
    /\ failure = [s \in Sessions |-> "none"]
    /\ snapshot = [s \in Sessions |-> << >>]
    /\ outCtx = [s \in Sessions |-> "none"]
    /\ inCtx = [s \in Sessions |-> "none"]
    /\ ctxBorn = [s \in Sessions |-> 0]
    /\ mic = [s \in Sessions |-> "none"]
    /\ streamLive = [s \in Sessions |-> FALSE]
    /\ procOn = [s \in Sessions |-> FALSE]
    /\ srcOn = [s \in Sessions |-> FALSE]
    /\ procCtx = [s \in Sessions |-> Null]
    /\ realtimeIn = [s \in Sessions |-> "none"]
    /\ inbox = [s \in Sessions |-> << >>]
    /\ outbox = [s \in Sessions |-> << >>]
    /\ nMsgs = 0
    /\ decoding = {}
    /\ scheduled = << >>
    /\ clock = 0
    /\ uncaught = {}
    /\ pendingAtDrop = {}

\* App starts with an empty board ...
Init ==
    /\ tasks = << >>
    /\ InitHook

\* ... or with the board localStorage kept, App.tsx 15-26
StoredTask(i, t) == [id |-> i, title |-> t, status |-> "pending", time |-> "undefined"]
StoredTasks == { << >>, <<StoredTask(<<"7">>, <<"A", "b">>), StoredTask(<<"8">>, <<"B", "a">>)>> }
InitStored ==
    /\ tasks \in StoredTasks
    /\ InitHook

\* the effect of VoiceInterface
EffectNext(cap) ==
    \/ Mount
    \/ EffectCleanup(cap)
    \/ EffectBody

\* the user
UserNext ==
    \/ ClickTalk
    \/ ClickClose
    \/ AppRender

\* the remote endpoint's connection events
NetNext(errs) ==
    \/ \E s \in Sessions : OnOpen(s)
    \/ \E s \in Sessions : RunClose(s)
    \/ \E s \in Sessions : OnClose(s)
    \/ \E s \in Sessions, e \in errs : OnError(s, e)

\* the microphone prompt's answer
MicNext ==
    \/ \E s \in Sessions : MicGranted(s)
    \/ \E s \in Sessions : MicDenied(s)

CaptureNext == \E p \in Sessions, f \in Frames : AudioProcess(p, f)

ToolNext == \E s \in Sessions, m \in ToolMsgs : OnMessage(s, m)

\* The Session's life cycle under every order of the user's and the remote
\* endpoint's events.
Next ==
    \/ EffectNext(MaxSessions)
    \/ UserNext
    \/ NetNext({SocketFailure})
    \/ MicNext

Spec == Init /\ [][Next]_vars

\* ... with the capture callbacks.
NextCapture ==
    \/ EffectNext(MsgSessions)
    \/ UserNext
    \/ NetNext(TransportErrors)
    \/ MicNext
    \/ CaptureNext

SpecCapture == Init /\ [][NextCapture]_vars

\* ... with tool-call messages.
NextTools ==
    \/ EffectNext(MsgSessions)
    \/ UserNext
    \/ NetNext({SocketFailure})
    \/ ToolNext

SpecTools == Init /\ [][NextTools]_vars

\* The user opens the voice pill and leaves it open; the remote endpoint sends
\* tool calls, audio and interruptions, and ends the Session itself.
NextMessages ==
    \/ EffectNext(MsgSessions)
    \/ ClickTalk
    \/ \E s \in Sessions : OnOpen(s)
    \/ \E s \in Sessions : OnClose(s)
    \/ \E s \in Sessions : OnError(s, SocketFailure)
    \/ MicNext
    \/ \E s \in Sessions, m \in ToolMsgs \cup AudioMsgs : OnMessage(s, m)
    \/ \E d \in decoding : AudioDecoded(d)

SpecMessages == Init /\ [][NextMessages]_vars

\* The voice pill stays open on a stored board; the remote endpoint sends tool
\* calls of every kind.
NextTasks ==
    \/ EffectNext(MsgSessions)
    \/ ClickTalk
    \/ \E s \in Sessions : OnOpen(s)
    \/ \E s \in Sessions, m \in TaskMsgs : OnMessage(s, m)

SpecTasks == InitStored /\ [][NextTasks]_vars

\* The voice pill stays open and the user does nothing more: every later run of
\* the effect follows a tool call that changed the board.
NextRerender ==
    \/ EffectNext(MaxSessions)
    \/ ClickTalk
    \/ \E s \in Sessions : OnOpen(s)
    \/ ToolNext

SpecRerender == InitStored /\ [][NextRerender]_vars

\* The voice pill stays open; the remote endpoint streams audio and
\* interruptions while the device clock runs.
NextPlayback ==
    \/ EffectNext(MsgSessions)
    \/ ClickTalk
    \/ \E s \in Sessions : OnOpen(s)
    \/ \E s \in Sessions, m \in AudioMsgs : Receive(s, m, MaxFrames)
    \/ \E d \in decoding : AudioDecoded(d)
    \/ Tick

SpecPlayback == Init /\ [][NextPlayback]_vars

\* ================================================================= claims
\* A Session is live from its connect() until it is fully torn down: session.close()
\* called or the socket gone, both AudioContexts closed, the stream's tracks
\* stopped, the capture nodes disconnected.
TornDown(s) ==
    /\ transport[s] \in {"closing", "failed", "closed"}
    /\ outCtx[s] = "closed" /\ inCtx[s] = "closed"
    /\ ~streamLive[s] /\ ~procOn[s] /\ ~srcOn[s]
Live(s) == s <= nSessions /\ ~TornDown(s)

\* C1: in every reachable state at most one Session is live: a connect() that
\* starts a new Session finds every earlier one fully torn down.
C1_AtMostOneLiveSession == Cardinality({s \in Sessions : Live(s)}) <= 1

\* A step that is a call of disconnect(): the effect's first run, its cleanup, or
\* its body with the pill closed (the second of two calls in succession).
DisconnectStep ==
    \/ uiPc = "unmounted" /\ uiPc' = "idle"
    \/ uiPc = "pending" /\ uiPc' = "body"
    \/ uiPc = "body" /\ ~isOpen /\ uiPc' = "idle"

\* C2: disconnect() is idempotent and safe from any state: it raises nothing and
\* leaves connected = false; called before any Session was started, or right after
\* another disconnect(), it changes nothing.
C2_DisconnectIdempotent ==
    [][DisconnectStep =>
          /\ ~isConnected'
          /\ "disconnect" \notin uncaught'
          /\ (uiPc = "unmounted" \/ uiPc = "body") => UNCHANGED hookVars]_vars

\* two disconnect() calls in succession have run, with a Session in between
C2_Witness ==
    /\ uiPc = "idle" /\ ~isOpen
    /\ nSessions >= 1
    /\ ~isConnected /\ audioContextRef = Null /\ currentSessionPromise = Null

\* C3: a Session that disconnect() cancelled while its handshake was pending never
\* opens into connected = true and never asks for the microphone.
C3_CancelledConnectNeverOpens ==
    [][\A s \in Sessions :
          (s \in closeReq /\ transport[s] = "connecting") =>
              /\ ~(transport'[s] = "open" /\ isConnected')
              /\ mic'[s] = "none"]_vars

\* A step that is a call of connect().
ConnectStep == uiPc = "body" /\ isOpen /\ uiPc' = "idle"

\* C4: connect() with no credential sets the error field and nothing else: no
\* Session, no socket, no AudioContext, no microphone request, connected = false.
C4_NoCredentialFailsFast ==
    [][(ConnectStep /\ ~apiKey) =>
          /\ error' = ApiKeyMissing
          /\ ~isConnected'
          /\ UNCHANGED <<isConnected, isTalking, isUserTalking, userAudioLevel>>
          /\ UNCHANGED <<refVars, netVars, ctxVars, capVars, toolVars, playVars>>]_vars

C4_Witness ==
    /\ ~apiKey /\ isOpen /\ uiPc = "idle"
    /\ error = ApiKeyMissing
    /\ nSessions = 0 /\ audioContextRef = Null

\* C5: the handshake's acknowledgement sets connected = true, clears the error and
\* asks for the microphone; the grant starts the capture nodes on the current
\* input context; a refusal leaves connected as it is.
C5_OpenMarksConnected ==
    [][\A s \in Sessions :
          /\ (transport[s] = "connecting" /\ transport'[s] = "open") =>
                 isConnected' /\ error' = NoError /\ mic'[s] = "pending"
          /\ (mic[s] = "pending" /\ mic'[s] = "granted" /\ inputContextRef # Null) =>
                 streamLive'[s] /\ procOn'[s] /\ srcOn'[s] /\ processorRef' = s
          /\ (mic[s] = "pending" /\ mic'[s] = "denied") =>
                 isConnected' = isConnected]_vars

\* the current Session is open and connected after its microphone was refused
C5_Witness ==
    \E s \in Sessions :
        /\ currentSessionPromise = s /\ transport[s] = "open"
        /\ mic[s] = "denied" /\ isConnected

\* C6: a refused microphone ends capture only: the error field takes the
\* microphone-denied message, connected and the socket stay as they were, and a
\* tool-call batch or an audio payload the Session delivers afterwards is still
\* answered with one response message and scheduled for playback.
C6_MicFailureOnlyStopsCapture ==
    [][\A s \in Sessions :
          /\ (mic[s] = "pending" /\ mic'[s] = "denied") =>
                 /\ error' = MicDeniedMsg
                 /\ isConnected' = isConnected
                 /\ transport' = transport
                 /\ UNCHANGED <<audioContextRef, outCtx, currentSessionPromise>>
          /\ (mic[s] = "denied" /\ inbox'[s] # inbox[s]) =>
                 /\ Len(outbox'[s]) = Len(outbox[s]) + 1
                 /\ Len(outbox'[s][Len(outbox'[s])]) = Len(inbox'[s][Len(inbox'[s])])
                 /\ isConnected' = isConnected
          /\ (mic[s] = "denied" /\ audioContextRef # Null
                /\ \E d \in decoding \ decoding' : d.session = s) =>
                 /\ Len(scheduled') = Len(scheduled) + 1
                 /\ scheduled'[Len(scheduled')].ctx = audioContextRef
                 /\ isConnected' = isConnected]_vars

\* after the refusal the Session, still connected, has answered a tool call and
\* scheduled an audio payload
C6_Witness ==
    \E s \in Sessions :
        /\ mic[s] = "denied" /\ transport[s] = "open" /\ isConnected
        /\ error = MicDeniedMsg
        /\ outbox[s] # << >>
        /\ \E k \in 1..Len(scheduled) : scheduled[k].ctx = s

\* C7: when an open Session ends by a close of its socket, connected, assistant
\* talking and user talking are all false, its capture nodes are disconnected and
\* its microphone stream is stopped.
C7_CloseReleasesEverything ==
    [][\A s \in Sessions :
          (transport[s] = "open" /\ transport'[s] = "closed") =>
              /\ ~isConnected' /\ ~isTalking' /\ ~isUserTalking'
              /\ ~procOn'[s] /\ ~srcOn'[s] /\ ~streamLive'[s]]_vars

\* C8: a failure of the socket, reported while the Session is connecting, open or
\* closing, puts the message it carries in the error field and sets connected to
\* false.
C8_TransportErrorRecorded ==
    [][\A s \in Sessions :
          (transport[s] # "failed" /\ transport'[s] = "failed") =>
              /\ failure'[s] \in TransportMsgs
              /\ error' = failure'[s]
              /\ ~isConnected']_vars

\* C9: once onclose or onerror has turned connected from true to false, connected
\* becomes true again only for a Session whose connect() came after that event.
C9_NoReconnectWithoutConnect ==
    [][\A s \in Sessions :
          (transport[s] = "connecting" /\ transport'[s] = "open" /\ isConnected') =>
              s \notin pendingAtDrop]_vars

\* C10: every tool-call batch of n calls is answered, in the step that dispatches
\* all of them, by exactly one response message of n entries, entry k carrying
\* the id and the name of call k; nothing else sends a response.
C10_OneResponsePerBatch ==
    [][\A s \in Sessions :
          IF inbox'[s] # inbox[s]
          THEN LET calls == inbox'[s][Len(inbox'[s])] IN
               /\ inbox'[s] = Append(inbox[s], calls)
               /\ Len(outbox'[s]) = Len(outbox[s]) + 1
               /\ SubSeq(outbox'[s], 1, Len(outbox[s])) = outbox[s]
               /\ LET sent == outbox'[s][Len(outbox'[s])] IN
                      /\ Len(sent) = Len(calls)
                      /\ \A k \in 1..Len(calls) :
                             sent[k].id = calls[k].id /\ sent[k].name = calls[k].name
               /\ tasks' = Dispatch(calls, tasks)
          ELSE outbox'[s] = outbox[s]]_vars

\* a batch of three calls, one of them to an undeclared tool, has been answered
C10_Witness ==
    \E s \in Sessions : \E j \in 1..Len(outbox[s]) :
        /\ Len(outbox[s][j]) = 3 /\ Len(inbox[s][j]) = 3
        /\ outbox[s][j][2].name = "setReminder"
        /\ outbox[s][j][2].response.status = "ok"

\* ---- tool calls (C11 - C14).  In a step that delivers a batch, the batch is the
\* last entry of the Session's inbox and the response sent for it the last entry
\* of its outbox.
Known == {"addTask", "markTaskComplete", "getExistingTasks"}
Indices(calls, n) == {k \in 1..Len(calls) : calls[k].name = n}

\* C11: an addTask call adds exactly one task, made of the call's arguments, and
\* touches no other task; its response is success / "Task added to board."; the
\* same call repeated adds the task again.
C11_AddTaskAddsOnce ==
    [][\A s \in Sessions :
          inbox'[s] # inbox[s] =>
              LET calls == inbox'[s][Len(inbox'[s])]
                  sent == outbox'[s][Len(outbox'[s])]
                  adds == Indices(calls, "addTask")
              IN /\ Len(tasks') = Len(tasks) + Cardinality(adds)
                 /\ \A k \in adds :
                        sent[k].response = [status |-> "success",
                                            message |-> "Task added to board.",
                                            tasks |-> NoTasks]
                 /\ (Len(calls) = 1 /\ adds = {1}) =>
                        /\ SubSeq(tasks', 1, Len(tasks)) = tasks
                        /\ tasks'[Len(tasks')].title =
                               (IF calls[1].args.title = << >> THEN NewItem
                                ELSE calls[1].args.title)
                        /\ tasks'[Len(tasks')].time = calls[1].args.time
                        /\ tasks'[Len(tasks')].status = "pending"]_vars

\* the same addTask call came twice and the board holds its task twice
C11_Witness ==
    /\ \E i, j \in 1..Len(tasks) :
           /\ i < j
           /\ tasks[i].title = <<"A", "b">> /\ tasks[j].title = <<"A", "b">>
           /\ tasks[i].id = DateNow /\ tasks[j].id = DateNow
    /\ \E s \in Sessions : \E k \in 1..Len(outbox[s]) :
           outbox[s][k][1].response.message = "Task added to board."

\* C12: a markTaskComplete call with title T completes every task whose id is T
\* or whose title contains T whatever the case, leaves every other task as it
\* was, and answers success / "Task marked complete." also when nothing matched.
C12_CompleteMatchesOnly ==
    [][\A s \in Sessions :
          inbox'[s] # inbox[s] =>
              LET calls == inbox'[s][Len(inbox'[s])]
                  sent == outbox'[s][Len(outbox'[s])]
                  marks == Indices(calls, "markTaskComplete")
              IN /\ \A k \in marks :
                        sent[k].response = [status |-> "success",
                                            message |-> "Task marked complete.",
                                            tasks |-> NoTasks]
                 /\ (Cardinality(marks) = 1 /\ Indices(calls, "addTask") = {}) =>
                        LET T == calls[CHOOSE k \in marks : TRUE].args.title IN
                        /\ Len(tasks') = Len(tasks)
                        /\ \A i \in 1..Len(tasks) :
                               IF \/ tasks[i].id = T
                                  \/ Includes(ToLowerCase(tasks[i].title), ToLowerCase(T))
                               THEN tasks'[i] = [tasks[i] EXCEPT !.status = "completed"]
                               ELSE tasks'[i] = tasks[i]]_vars

\* a title in capitals completed the one task that contains it and left the other
C12_Witness ==
    /\ Len(tasks) >= 2
    /\ tasks[1].title = <<"A", "b">> /\ tasks[1].status = "completed"
    /\ tasks[2].title = <<"B", "a">> /\ tasks[2].status = "pending"
    /\ \E s \in Sessions : \E k \in 1..Len(inbox[s]) :
           /\ inbox[s][k][1].args.title = <<"A", "B">>
           /\ outbox[s][k][1].response.message = "Task marked complete."

\* C13: the result of a getExistingTasks call is the projection of the board as
\* the calls dispatched before it, in this batch and earlier, have left it.
C13_ReadsLatestTasks ==
    [][\A s \in Sessions :
          inbox'[s] # inbox[s] =>
              LET calls == inbox'[s][Len(inbox'[s])]
                  sent == outbox'[s][Len(outbox'[s])]
              IN \A k \in Indices(calls, "getExistingTasks") :
                     sent[k].response.tasks =
                         Projection(Dispatch(SubSeq(calls, 1, k - 1), tasks))]_vars

\* C14: a call of an undeclared tool changes no task, is answered {status: "ok"}
\* under its own id and name, and leaves the error field and connected alone.
C14_UnknownToolPermissive ==
    [][\A s \in Sessions :
          inbox'[s] # inbox[s] =>
              LET calls == inbox'[s][Len(inbox'[s])]
                  sent == outbox'[s][Len(outbox'[s])]
                  unknown == {k \in 1..Len(calls) : calls[k].name \notin Known}
              IN /\ \A k \in unknown :
                        sent[k] = [id |-> calls[k].id, name |-> calls[k].name,
                                   response |-> [status |-> "ok", message |-> "none",
                                                 tasks |-> NoTasks]]
                 /\ unknown # {} => error' = error /\ isConnected' = isConnected
                 /\ unknown = 1..Len(calls) =>
                        tasks' = tasks /\ uiPc' = uiPc /\ transport' = transport]_vars

\* an undeclared tool was called on a connected Session with a stored board
C14_Witness ==
    \E s \in Sessions : \E k \in 1..Len(outbox[s]) :
        /\ Len(inbox[s][k]) = 1 /\ inbox[s][k][1].name = "setReminder"
        /\ outbox[s][k][1].response.status = "ok"
        /\ isConnected /\ error = NoError /\ Len(tasks) = 2

\* ---- playback (C15, C16, C20).  The end of a scheduled frame:
FrameEnd(fr) == fr.start + fr.dur

\* C15: of two frames scheduled one after the other on a Session's context, the
\* second starts at or after the end of the first, and exactly at that end when
\* it is scheduled before the first has finished.
C15_FramesBackToBack ==
    \A i \in 1..(Len(scheduled) - 1) :
        LET a == scheduled[i]
            b == scheduled[i + 1]
        IN a.ctx = b.ctx =>
               /\ b.start >= FrameEnd(a)
               /\ b.at <= FrameEnd(a) => b.start = FrameEnd(a)

\* C16: an interruption, alone in its message or handled after the message's own
\* audio, leaves the cursor at or before the device time and assistant talking
\* false; the frame scheduled next starts at the device time.
C16_InterruptResetsCursor ==
    [][/\ (audioContextRef # Null /\ nMsgs' = nMsgs + 1
             /\ decoding' = decoding /\ inbox' = inbox) =>
              /\ nextStartTimeRef' <= CurrentTime(audioContextRef)
              /\ ~isTalking'
       /\ \A d \in decoding \ decoding' :
              (d.interrupted /\ audioContextRef # Null) =>
                  /\ nextStartTimeRef' <= CurrentTime(audioContextRef)
                  /\ ~isTalking'
       /\ (Len(scheduled') = Len(scheduled) + 1
             /\ nextStartTimeRef <= CurrentTime(audioContextRef)) =>
              scheduled'[Len(scheduled')].start = CurrentTime(audioContextRef)]_vars

\* a frame, then a message that is an interruption only, then a frame that starts
\* at the device time while the first is still playing
C16_Witness ==
    /\ Len(scheduled) = 2 /\ decoding = {} /\ nMsgs = 3
    /\ scheduled[1].n = 1 /\ scheduled[2].n = 3
    /\ scheduled[2].start = scheduled[2].at
    /\ scheduled[2].at > 0
    /\ scheduled[2].at < FrameEnd(scheduled[1])

\* C20: frames are scheduled in the order their messages arrived: of two frames
\* on one context, the one whose message came first starts no later.
C20_ArrivalOrderKept ==
    \A i, j \in 1..Len(scheduled) :
        (scheduled[i].ctx = scheduled[j].ctx /\ scheduled[i].n < scheduled[j].n) =>
            scheduled[i].start <= scheduled[j].start

\* C17: the level shown is min(1, RMS x 10) of the last captured frame, between 0
\* and 1, and user talking is (level > 0.05): silence gives level 0 and not
\* talking, full scale gives level 1 and talking.  (Every sample of a frame has
\* the magnitude of its first, which is therefore the frame's RMS.)
C17_LevelClampedAndThreshold ==
    /\ userAudioLevel \in 0..Scale
    /\ userAudioLevel \in {FrameLevel[f] : f \in Frames} \cup {0}
    /\ isUserTalking <=> (userAudioLevel * 20 > Scale)
    /\ \A f \in Frames :
           \E rms \in {f[1]} :
               /\ rms * rms * Len(f) = SumSq(f)
               /\ FrameLevel[f] = (IF rms * 10 <= Scale THEN rms * 10 ELSE Scale)
               /\ (rms = 0 => FrameLevel[f] = 0 /\ ~Talking(FrameLevel[f]))
               /\ (rms = Scale => FrameLevel[f] = Scale /\ Talking(FrameLevel[f]))

\* a full-scale frame was captured and sent: level 1, user talking
C17_Witness ==
    /\ userAudioLevel = Scale /\ isUserTalking
    /\ \E p \in Sessions : procOn[p] /\ realtimeIn[p] = "delivered"

\* No callback is pending: every socket is closed or was never opened, every
\* microphone prompt is answered.
Settled ==
    \A s \in Sessions : transport[s] \in {"none", "closed"} /\ mic[s] # "pending"

\* C18: once the pill is closed, disconnect() has run and no callback is pending,
\* the engine holds no microphone stream, capture node or audio context.
C18_DisconnectReleasesAll ==
    (uiPc = "idle" /\ ~isOpen /\ Settled) =>
        /\ streamRef = Null /\ processorRef = Null /\ sourceRef = Null
        /\ audioContextRef = Null /\ inputContextRef = Null
        /\ \A s \in Sessions :
               /\ ~streamLive[s] /\ ~procOn[s] /\ ~srcOn[s]
               /\ outCtx[s] # "running" /\ inCtx[s] # "running"

\* C19: while the current Session is open and connected, no step (an inbound
\* message, or the effect's run after a tool call changed the board) changes
\* connected or the error field, closes the Session or replaces it.
C19_MessagesKeepSessionOpen ==
    [][\A s \in Sessions :
          (transport[s] = "open" /\ currentSessionPromise = s /\ isConnected) =>
              /\ isConnected' /\ error' = error
              /\ currentSessionPromise' = s /\ s \notin closeReq'
              /\ transport'[s] = "open"]_vars

\* C21: when a message carries audio and the interrupted flag, the interruption is
\* handled before the audio: its frame starts at the device time and the cursor
\* the handler leaves is that frame's end.
C21_InterruptBeforeOwnFrame ==
    [][\A d \in decoding \ decoding' :
          (d.interrupted /\ Len(scheduled') = Len(scheduled) + 1) =>
              /\ scheduled'[Len(scheduled')].start = CurrentTime(audioContextRef)
              /\ nextStartTimeRef' = FrameEnd(scheduled'[Len(scheduled')])]_vars

\* C22: while the current Session is open, assistant talking is true whenever the
\* cursor is later than the device time.
C22_TalkingWhileCursorAhead ==
    \A s \in Sessions :
        (currentSessionPromise = s /\ transport[s] = "open" /\ audioContextRef = s
           /\ nextStartTimeRef > CurrentTime(s)) => isTalking

\* ------------------------------------------------ playback with bad payloads
\* The remote endpoint also sends payloads that cannot be decoded; scheduled
\* frames finish playing.
DecodeMsgs == {Msg(FALSE, << >>, 1, FALSE), Msg(FALSE, << >>, 0, TRUE), MalformedMsg}

NextDecode ==
    \/ EffectNext(MsgSessions)
    \/ ClickTalk
    \/ \E s \in Sessions : OnOpen(s)
    \/ \E s \in Sessions, m \in DecodeMsgs : Receive(s, m, MaxFrames)
    \/ \E d \in decoding : AudioDecoded(d)
    \/ \E d \in decoding : DecodeFailed(d)
    \/ \E k \in 1..Len(scheduled) : FrameEnded(k)
    \/ Tick

SpecDecode == Init /\ [][NextDecode]_vars

\* Playback to its end.  A payload is decoded before the next message and before
\* the clock moves on, and a frame is accepted only when it ends within MaxTime,
\* so that every scheduled frame can finish; decoding, the frame-ended callbacks,
\* the clock and React's effects are never postponed for ever.
FitsHorizon(msg) ==
    IF msg.audio > 0 /\ audioContextRef # Null
    THEN ctxBorn[audioContextRef]
           + Max(CurrentTime(audioContextRef), nextStartTimeRef) + msg.audio <= MaxTime
    ELSE TRUE

NextTalk ==
    \/ EffectNext(MsgSessions)
    \/ ClickTalk
    \/ \E s \in Sessions : OnOpen(s)
    \/ \E s \in Sessions, m \in AudioMsgs \cup {MalformedMsg} :
          decoding = {} /\ FitsHorizon(m) /\ Receive(s, m, MaxFrames)
    \/ \E d \in decoding : AudioDecoded(d)
    \/ \E d \in decoding : DecodeFailed(d)
    \/ \E k \in 1..Len(scheduled) : FrameEnded(k)
    \/ decoding = {} /\ Tick

SpecTalkFair ==
    /\ Init
    /\ [][NextTalk]_vars
    /\ WF_vars(EffectNext(MsgSessions))
    /\ WF_vars(\E d \in decoding : AudioDecoded(d))
    /\ WF_vars(\E d \in decoding : DecodeFailed(d))
    /\ WF_vars(\E k \in 1..Len(scheduled) : FrameEnded(k))
    /\ WF_vars(decoding = {} /\ Tick)

\* audio that has been scheduled and has not finished playing
Unplayed == {k \in 1..Len(scheduled) : ~scheduled[k].ended}

\* C23: assistant talking, once true, becomes false again when no more audio
\* arrives and the scheduled frames have finished (the clock and the
\* frame-ended callbacks being fair).
C23_TalkingEventuallyStops == isTalking ~> ~isTalking

\* C24: the handler's step that gives up an undecodable payload leaves connected,
\* the scheduled frames and the cursor as they were, and leaves assistant talking
\* true only if other audio is still being decoded or played.
C24_MalformedPayloadDropped ==
    [][\A d \in decoding \ decoding' :
          d.dur = Malformed =>
             /\ isConnected' = isConnected
             /\ scheduled' = scheduled
             /\ nextStartTimeRef' = nextStartTimeRef
             /\ isTalking' => (decoding' # {} \/ Unplayed # {})]_vars

\* C25: once a Session's transport has failed, and until the effect runs
\* disconnect() or connect() again, no step changes userAudioLevel or userTalking
\* and no captured frame is handed to that Session.
C25_ErrorStopsCapture ==
    [][\A p \in Sessions :
          (transport[p] = "failed" /\ transport'[p] = "failed"
             /\ currentSessionPromise = p /\ currentSessionPromise' = p /\ uiPc' = uiPc)
          => /\ userAudioLevel' = userAudioLevel
             /\ isUserTalking' = isUserTalking
             /\ realtimeIn'[p] = realtimeIn[p]]_vars

\* C26: a callback of a Session that disconnect() has dropped, running after a
\* later connect(), changes none of connected, assistant talking, error, the
\* cursor and the device handles.
C26_StaleCallbacksInert ==
    [][\A s \in Sessions :
          (currentSessionPromise # Null /\ currentSessionPromise # s /\ uiPc' = uiPc
             /\ (transport'[s] # transport[s] \/ mic'[s] # mic[s]))
          => /\ isConnected' = isConnected
             /\ isTalking' = isTalking
             /\ error' = error
             /\ nextStartTimeRef' = nextStartTimeRef
             /\ UNCHANGED <<audioContextRef, inputContextRef, streamRef, processorRef,
                            sourceRef>>]_vars

\* C27: after every step userTalking is true exactly when userAudioLevel is
\* above 0.05, a captured frame writes the two together, and a call of
\* disconnect() leaves them false and 0.
C27_TalkingIffLevelAboveThreshold ==
    [][/\ isUserTalking' <=> (userAudioLevel' * 20 > Scale)
       /\ (isUserTalking' # isUserTalking) => (userAudioLevel' # userAudioLevel)
       /\ DisconnectStep => (~isUserTalking' /\ userAudioLevel' = 0)]_vars

\* a frame whose level is exactly 0.05 was captured: not talking; and a louder
\* one can be captured next
C27_Witness ==
    /\ userAudioLevel * 20 = Scale /\ ~isUserTalking
    /\ \E p \in Sessions : procOn[p] /\ srcOn[p] /\ realtimeIn[p] = "delivered"

\* C28: the responses a Session has been sent are, one for one and in order, the
\* answers to the tool-call batches that Session delivered, whichever Session is
\* the current one: no response goes out on another Session.
C28_ResponseOnDeliveringSession ==
    \A s \in Sessions :
        /\ Len(outbox[s]) = Len(inbox[s])
        /\ \A j \in 1..Len(inbox[s]) :
               /\ Len(outbox[s][j]) = Len(inbox[s][j])
               /\ \A k \in 1..Len(inbox[s][j]) : outbox[s][j][k].id = inbox[s][j][k].id

\* Session 1 delivered a board-changing tool call, the effect replaced it by
\* Session 2, and Session 1 then delivered another one: both were answered on
\* Session 1, nothing was sent on Session 2.
C28_Witness ==
    /\ currentSessionPromise = 2 /\ uiPc = "pending"
    /\ Len(inbox[1]) = 2 /\ Len(outbox[1]) = 2
    /\ inbox[2] = << >> /\ outbox[2] = << >>
====
